---- MODULE Spec2Model ----
(***************************************************************************)
(* founder-path web client: the session controller (AuthContext.jsx), the  *)
(* route guards (App.js), the response interceptor (services/api.js) and   *)
(* the onboarding wizard (pages/Onboarding.jsx), as one state machine.     *)
(*                                                                         *)
(* One state is one moment of the page's event loop.  Every action is one  *)
(* event handler, effect or promise continuation, run up to its next await.*)
(* A backend call that has been issued and not yet answered is a slot of   *)
(* net; the handler that awaits it continues in the action that consumes   *)
(* the response.  The backend is opaque: every response is chosen freely   *)
(* among success, HTTP 401 and any other failure.                          *)
(*                                                                         *)
(* The mount effect of AuthProvider is taken to run once per page load     *)
(* (its dependencies are memoised callbacks, taken as stable for the life  *)
(* of the page).  A page load set off by the interceptor discards the rest *)
(* of the handler that was awaiting the response.                          *)
(***************************************************************************)
EXTENDS Integers, Sequences, FiniteSets, TLC

\* ---------------------------------------------------------------- bounds
\* number of backend calls that can be awaiting their response at once
MaxInFlight == 2

\* ------------------------------------------------------------- constants
Null == "null"

\* identities the backend can resolve, ids it can return
Users == {"u1"}
ProfileIds == {"p1", "p2"}
ReportIds == {"r1", "r2"}
Milestones == {"m1", "m2"}

\* one-time tokens the authentication provider hands out
Tokens == {"abc123"}

\* App.js routes
PublicPath == "/"
OnboardingPath == "/onboarding"
DashboardPath == "/dashboard"
ResultsPath(rid) == "/results/" \o rid
ResultsPaths == {ResultsPath(r) : r \in ReportIds}
ProtectedPaths == {OnboardingPath, DashboardPath} \cup ResultsPaths
\* useParams().reportId on a report route
ReportIdOf(p) == CHOOSE r \in ReportIds : ResultsPath(r) = p
Paths == {PublicPath} \cup ProtectedPaths

\* URL fragments, as the sequence of key=value parameters after the '#'
NoHash == <<>>
Hashes ==
    { NoHash,
      << <<"session_id", "abc123">> >>,
      << <<"session_id", "">> >>,
      << <<"xsession_id", "abc123">> >> }

\* the URLs a page load can start from: every route without a fragment, and the
\* public view and the login callback route with each fragment
InitialUrls ==
    {<<p, NoHash>> : p \in {PublicPath, OnboardingPath, DashboardPath, ResultsPath("r1")}}
        \cup ({PublicPath, DashboardPath} \X Hashes)

\* Onboarding.jsx: STEPS and the option lists (a sample of each list)
STEPS == <<"background", "skills", "interests", "constraints", "goals", "preferences">>
LastStep == Len(STEPS) - 1
TECH_SKILLS == {"Python", "React"}
DOMAIN_SKILLS == {"Sales"}
SOFT_SKILLS == {"Leadership"}
DOMAINS == {"Fintech"}
TARGET_ROLES == {"Solo Founder"}
ArrayFields == {"tech_skills", "domain_skills", "soft_skills", "excited_domains", "target_roles"}
Options(field) ==
    CASE field = "tech_skills" -> TECH_SKILLS
      [] field = "domain_skills" -> DOMAIN_SKILLS
      [] field = "soft_skills" -> SOFT_SKILLS
      [] field = "excited_domains" -> DOMAINS
      [] field = "target_roles" -> TARGET_ROLES

TextFields == {"education", "current_role"}
Toggles == UNION {{<<f, i>> : i \in Options(f)} : f \in ArrayFields}

\* what a user can type into the text inputs and the hours input
TextInputs == {"", "BSc"}
NumberInputs == {"", "-5", "10"}

\* the part of these inputs a user of the whole application is given (Spec);
\* SpecWizard gives one wizard all of them
AppTextInputs == {"BSc"}
AppNumberInputs == {"-5", "10"}
AppToggles ==
    {<<"tech_skills", "Python">>, <<"excited_domains", "Fintech">>, <<"target_roles", "Solo Founder">>}
AppReportIds == {"r1"}
AppReportLists == {<<>>, <<"r1">>}
AppMilestoneLists == {<<>>}
AppMilestones == {"m1"}

\* backend operations (services/api.js)
AuthOps == {"me", "session", "logout"}
PageOps == {"save", "analyze", "fetchData", "deleteReport", "getReport", "updateMilestones"}
Ops == AuthOps \cup PageOps

\* a call in flight: the operation, its path or body argument, the data its
\* continuation closes over, and whether the component awaiting it is still mounted
Req(op, arg, data, live) == [op |-> op, arg |-> arg, data |-> data, live |-> live]

\* response statuses
Failures == {401, 500}

VARIABLES
    path,          \* window.location.pathname
    hash,          \* window.location.hash, parsed into parameters
    user,          \* AuthProvider: user
    loading,       \* AuthProvider: loading
    booted,        \* AuthProvider's mount effect has run in this page load
    authLog,       \* calls the AuthProvider mount effect issued in this page load
    net,           \* backend calls awaiting their response
    mounted,       \* the protected page component that is mounted, or "none"
    currentStep,   \* Onboarding: currentStep
    isSubmitting,  \* Onboarding: isSubmitting
    isAnalyzing,   \* Onboarding: isAnalyzing
    formData,      \* Onboarding: formData (the Draft Profile)
    reports,       \* Dashboard: reports (ids, in display order)
    hasProfile,    \* Dashboard: hasProfile
    dashLoading,   \* Dashboard: loading
    deleteId,      \* Dashboard: deleteId
    report,        \* Results: report (the id of the loaded report)
    resLoading,    \* Results: loading
    completedMilestones,  \* Results: completedMilestones
    toast,         \* notices shown by the last step
    console,       \* console.error lines written by the last step
    resp           \* the backend response the last step consumed

sessVars == <<user, loading, booted, authLog>>
urlVars == <<path, hash>>
wizVars == <<currentStep, isSubmitting, isAnalyzing, formData>>
dashVars == <<reports, hasProfile, dashLoading, deleteId>>
resVars == <<report, resLoading, completedMilestones>>
pageVars == <<wizVars, dashVars, resVars>>
outVars == <<toast, console, resp>>
vars == <<path, hash, user, loading, booted, authLog, net, mounted,
          currentStep, isSubmitting, isAnalyzing, formData,
          reports, hasProfile, dashLoading, deleteId,
          report, resLoading, completedMilestones, toast, console, resp>>

\* ------------------------------------------------------------ Onboarding
InitialFormData ==
    [ education |-> "", current_role |-> "",
      tech_skills |-> <<>>, domain_skills |-> <<>>, soft_skills |-> <<>>,
      excited_domains |-> <<>>, hours_per_week |-> 10, target_roles |-> <<>> ]

\* variant: a test against null in place of truthiness
Truthy_NotNull(s) == s # Null

\* JavaScript truthiness of a string
Truthy(s) == s # "" /\ s # Null

\* arr.includes(item)
Includes(arr, item) == \E i \in DOMAIN arr : arr[i] = item

\* arr.filter(i => i !== item)
Filter(arr, item) == SelectSeq(arr, LAMBDA x : x # item)

\* parseInt of what the number input holds; 0 stands for NaN as well, both are falsy
ParseInt(s) ==
    CASE s = "10" -> 10
      [] s = "-5" -> -5
      [] OTHER -> 0

\* parseInt(e.target.value) || 1
HoursFromInput(s) == IF ParseInt(s) # 0 THEN ParseInt(s) ELSE 1

\* variant: the gate with the Skills step asking for both a technical and a domain skill
Gate_BothSkillLists(step, fd) ==
    CASE step = 0 -> Truthy(fd.education) /\ Truthy(fd.current_role)
      [] step = 1 -> Len(fd.tech_skills) > 0 /\ Len(fd.domain_skills) > 0
      [] step = 2 -> Len(fd.excited_domains) > 0
      [] step = 3 -> fd.hours_per_week > 0
      [] step = 4 -> Len(fd.target_roles) > 0
      [] step = 5 -> TRUE
      [] OTHER -> FALSE

\* the gate of step `step` on draft `fd`
Gate(step, fd) ==
    CASE step = 0 -> Truthy(fd.education) /\ Truthy(fd.current_role)
      [] step = 1 -> Len(fd.tech_skills) > 0 \/ Len(fd.domain_skills) > 0
      [] step = 2 -> Len(fd.excited_domains) > 0
      [] step = 3 -> fd.hours_per_week > 0
      [] step = 4 -> Len(fd.target_roles) > 0
      [] step = 5 -> TRUE
      [] OTHER -> FALSE

canProceed == Gate(currentStep, formData)

\* variant: a Previous control that also waits for the gate
PrevDisabled_WhenGateFails == currentStep = 0 \/ ~canProceed

\* the disabled props of the three navigation buttons
PrevDisabled == currentStep = 0

\* variant: a Next control that is never disabled
NextDisabled_Never == FALSE

\* disabled={!canProceed()} of next-step-btn
NextDisabled == ~canProceed

\* variant: a submit control that looks at the gate only
SubmitDisabled_GateOnly == ~canProceed

\* disabled={!canProceed() || isSubmitting}
SubmitDisabled == ~canProceed \/ isSubmitting

\* variant: the submit control replaces Next one step early
ShowsNext_UntilGoals == currentStep < Len(STEPS) - 2

\* which of the two right-hand buttons is rendered
ShowsNext == currentStep < Len(STEPS) - 1

\* variant: a wizard whose step form stays on screen during the analysis
WizardForm_IgnoresAnalyzing == mounted = OnboardingPath

\* the step form is on screen: Onboarding is mounted and not in the Analyzing view
WizardForm == mounted = OnboardingPath /\ ~isAnalyzing

ResetWizard ==
    /\ currentStep' = 0
    /\ isSubmitting' = FALSE
    /\ isAnalyzing' = FALSE
    /\ formData' = InitialFormData

\* Dashboard and Results: the state useState constructs
ResetDashboard ==
    /\ reports' = <<>>
    /\ hasProfile' = FALSE
    /\ dashLoading' = TRUE
    /\ deleteId' = Null
ResetResults ==
    /\ report' = Null
    /\ resLoading' = TRUE
    /\ completedMilestones' = <<>>

\* ------------------------------------------------------------------- net
\* net is a bag of requests: a function from the requests in flight to how many of each
NoCalls == << >>
Count(n, r) == IF r \in DOMAIN n THEN n[r] ELSE 0
InFlight(n) == LET RECURSIVE Sum(_)
                   Sum(S) == IF S = {} THEN 0
                             ELSE LET r == CHOOSE x \in S : TRUE IN n[r] + Sum(S \ {r})
               IN Sum(DOMAIN n)
HasRoom(n) == InFlight(n) < MaxInFlight
Issue(n, req) == [r \in DOMAIN n \cup {req} |-> Count(n, r) + (IF r = req THEN 1 ELSE 0)]
Done(n, req) ==
    [r \in {x \in DOMAIN n : x # req \/ n[x] > 1} |-> IF r = req THEN n[r] - 1 ELSE n[r]]

\* the component that issued a page call has unmounted: its setState calls are no-ops
StaleOf(r) == IF r.op \in PageOps THEN [r EXCEPT !.live = FALSE] ELSE r
StaleAll(n) ==
    [q \in {StaleOf(r) : r \in DOMAIN n} |->
        IF q.op \in PageOps
        THEN Count(n, q) + Count(n, [q EXCEPT !.live = TRUE])
        ELSE n[q]]

\* a step that handles no response and writes nothing
NoResp == [op |-> "none", status |-> 0, data |-> <<>>]
Quiet == toast' = <<>> /\ console' = <<>> /\ resp' = NoResp

\* the step consumes the response to call r: its HTTP status and its body
Answer(r, status, data) == resp' = [op |-> r.op, status |-> status, data |-> data]
Silent == toast' = <<>> /\ console' = <<>>

\* ------------------------------------------------------- route rendering
\* variant: ProtectedRoute without its loading branch
ProtectedRouteView_NoLoadingGate ==
    IF user = Null THEN "navigate" ELSE "children"

\* ProtectedRoute: what it returns
ProtectedRouteView ==
    IF loading THEN "loading"
    ELSE IF user = Null THEN "navigate"
    ELSE "children"

\* the protected route p is the current one and renders its children
Renders(p) == p \in ProtectedPaths /\ path = p /\ ProtectedRouteView = "children"

\* the page component goes away with the route or with the identity
Unmount(n) ==
    /\ mounted' = "none"
    /\ ResetWizard
    /\ ResetDashboard
    /\ ResetResults
    /\ net' = StaleAll(n)

\* both routes render the same element: Results stays mounted when only :reportId changes
SameComponent(p, q) == p = q \/ (p \in ResultsPaths /\ q \in ResultsPaths)

\* navigate(p) with session identity u in force afterwards, n the calls in flight
NavigateTo(p, u, n) ==
    /\ path' = p
    /\ hash' = NoHash
    /\ IF mounted # "none" /\ (~SameComponent(mounted, p) \/ u = Null)
       THEN Unmount(n)
       ELSE /\ net' = n
            /\ UNCHANGED <<mounted, pageVars>>

\* a full page load of p#h: every component is constructed anew
PageLoad(p, h) ==
    /\ path' = p
    /\ hash' = h
    /\ user' = Null
    /\ loading' = TRUE
    /\ booted' = FALSE
    /\ authLog' = <<>>
    /\ net' = NoCalls
    /\ mounted' = "none"
    /\ ResetWizard
    /\ ResetDashboard
    /\ ResetResults
    /\ Silent

\* variant: an interceptor that redirects on every failure
InterceptorRedirects_AnyFailure(status) == status # 200 /\ path # PublicPath

\* api.interceptors.response, error branch: TRUE when it sends the browser to '/'
InterceptorRedirects(status) == status = 401 /\ path # PublicPath

Init ==
    /\ \E url \in InitialUrls : path = url[1] /\ hash = url[2]
    /\ user = Null
    /\ loading = TRUE
    /\ booted = FALSE
    /\ authLog = <<>>
    /\ net = NoCalls
    /\ mounted = "none"
    /\ currentStep = 0
    /\ isSubmitting = FALSE
    /\ isAnalyzing = FALSE
    /\ formData = InitialFormData
    /\ reports = <<>>
    /\ hasProfile = FALSE
    /\ dashLoading = TRUE
    /\ deleteId = Null
    /\ report = Null
    /\ resLoading = TRUE
    /\ completedMilestones = <<>>
    /\ toast = <<>>
    /\ console = <<>>
    /\ resp = NoResp


\* ----------------------------------------------------------- AuthContext
\* hash.includes('session_id='): some parameter name ends in "session_id"
HashIncludesSessionId(h) == \E i \in DOMAIN h : h[i][1] \in {"session_id", "xsession_id"}

\* new URLSearchParams(hash.substring(1)).get('session_id')
GetSessionId(h) ==
    IF \E i \in DOMAIN h : h[i][1] = "session_id"
    THEN h[CHOOSE i \in DOMAIN h :
              /\ h[i][1] = "session_id"
              /\ \A j \in DOMAIN h : h[j][1] = "session_id" => i <= j][2]
    ELSE Null

\* variant: a mount effect that ignores the fragment
BootCall_AlwaysResolve(h) == Req("me", "-", <<>>, TRUE)

\* handleAuth: the call the mount effect issues for fragment h
BootCall(h) ==
    IF HashIncludesSessionId(h) /\ Truthy(GetSessionId(h))
    THEN Req("session", GetSessionId(h), <<>>, TRUE)
    ELSE Req("me", "-", <<>>, TRUE)

\* useEffect(handleAuth): runs processSessionId or checkSession up to its await
handleAuth ==
    /\ ~booted
    /\ booted' = TRUE
    /\ loading' = TRUE
    /\ net' = Issue(net, BootCall(hash))
    /\ authLog' = Append(authLog, <<BootCall(hash).op, BootCall(hash).arg>>)
    /\ Quiet
    /\ UNCHANGED <<urlVars, user, mounted, pageVars>>

\* variant: an exchange that forgets the identity returned
ExchangedUser_Dropped(u) == Null

\* what processSessionId stores when the exchange answers with identity u
ExchangedUser(u) == u

\* variant: an exchange that redirects first and rewrites the URL afterwards
ExchangeUrlWrites_NavigateFirst(p) ==
    << [how |-> "navigate", path |-> DashboardPath, hash |-> NoHash],
       [how |-> "replaceState", path |-> DashboardPath, hash |-> NoHash] >>

\* processSessionId, after the exchange succeeded at pathname p: the writes to the URL
\* in program order, window.history.replaceState(null, '', window.location.pathname)
\* and then navigate('/dashboard')
ExchangeUrlWrites(p) ==
    << [how |-> "replaceState", path |-> p, hash |-> NoHash],
       [how |-> "navigate", path |-> DashboardPath, hash |-> NoHash] >>

\* the route a sequence of URL writes ends on
RouteAfter(writes) == writes[Len(writes)].path

\* processSessionId, after a successful exchange
SessionOk(r, u) ==
    /\ r.op = "session"
    /\ user' = ExchangedUser(u)
    /\ loading' = FALSE
    /\ NavigateTo(RouteAfter(ExchangeUrlWrites(path)), u, Done(net, r))
    /\ Silent
    /\ Answer(r, 200, <<u>>)
    /\ UNCHANGED <<booted, authLog>>

\* variant: a failed exchange that stays on the route it was on
SessionFail_NoRedirect(r, status) ==
    /\ r.op = "session"
    /\ user' = Null
    /\ loading' = FALSE
    /\ net' = Done(net, r)
    /\ Answer(r, status, <<>>)
    /\ toast' = <<>>
    /\ console' = <<"Session processing failed:">>
    /\ UNCHANGED <<urlVars, booted, authLog, mounted, pageVars>>

\* processSessionId, after a failed exchange
SessionFail(r, status) ==
    /\ r.op = "session"
    /\ IF InterceptorRedirects(status)
       THEN PageLoad(PublicPath, NoHash) /\ Answer(r, status, <<>>)
       ELSE /\ user' = Null
            /\ loading' = FALSE
            /\ NavigateTo(PublicPath, Null, Done(net, r))
            /\ Answer(r, status, <<>>)
            /\ toast' = <<>>
            /\ console' = <<"Session processing failed:">>
            /\ UNCHANGED <<booted, authLog>>

\* variant: a checkSession that discards the identity resolved
ResolvedUser_Dropped(u) == Null

\* what checkSession stores when /auth/me answers with identity u
ResolvedUser(u) == u

\* checkSession, after /auth/me succeeded
MeOk(r, u) ==
    /\ r.op = "me"
    /\ user' = ResolvedUser(u)
    /\ loading' = FALSE
    /\ net' = Done(net, r)
    /\ Silent
    /\ Answer(r, 200, <<u>>)
    /\ UNCHANGED <<urlVars, booted, authLog, mounted, pageVars>>

\* variant: a checkSession without its finally block
MeFail_KeepsLoading(r, status) ==
    /\ r.op = "me"
    /\ user' = Null
    /\ net' = Done(net, r)
    /\ Silent
    /\ Answer(r, status, <<>>)
    /\ UNCHANGED <<urlVars, loading, booted, authLog, mounted, pageVars>>

\* checkSession, after /auth/me failed
MeFail(r, status) ==
    /\ r.op = "me"
    /\ IF InterceptorRedirects(status)
       THEN PageLoad(PublicPath, NoHash) /\ Answer(r, status, <<>>)
       ELSE /\ user' = Null
            /\ loading' = FALSE
            /\ net' = Done(net, r)
            /\ Silent
            /\ Answer(r, status, <<>>)
            /\ UNCHANGED <<urlVars, booted, authLog, mounted, pageVars>>

\* login: the provider sends the browser back to /dashboard#session_id=<token>
login(t) ==
    /\ path = PublicPath
    /\ ~loading
    /\ PageLoad(DashboardPath, << <<"session_id", t>> >>)
    /\ resp' = NoResp

\* logout, up to its await
logout ==
    /\ mounted = DashboardPath
    /\ ~dashLoading
    /\ deleteId = Null
    /\ HasRoom(net)
    /\ net' = Issue(net, Req("logout", "-", <<>>, TRUE))
    /\ Quiet
    /\ UNCHANGED <<urlVars, sessVars, mounted, pageVars>>

\* variant: a logout that keeps the identity
LoggedOutUser_Kept == user

\* the identity logout leaves behind
LoggedOutUser == Null

\* logout, after /auth/logout succeeded
LogoutOk(r) ==
    /\ r.op = "logout"
    /\ user' = LoggedOutUser
    /\ NavigateTo(PublicPath, LoggedOutUser, Done(net, r))
    /\ Silent
    /\ Answer(r, 200, <<>>)
    /\ UNCHANGED <<loading, booted, authLog>>

\* logout, after /auth/logout failed
LogoutFail(r, status) ==
    /\ r.op = "logout"
    /\ IF InterceptorRedirects(status)
       THEN PageLoad(PublicPath, NoHash) /\ Answer(r, status, <<>>)
       ELSE /\ user' = LoggedOutUser
            /\ NavigateTo(PublicPath, LoggedOutUser, Done(net, r))
            /\ Answer(r, status, <<>>)
            /\ toast' = <<>>
            /\ console' = <<"Logout error:">>
            /\ UNCHANGED <<loading, booted, authLog>>

\* ---------------------------------------------------------------- App.js
\* variant: a route guard that sends the visitor to the dashboard route
ProtectedRedirect_ToDashboard ==
    /\ path \in ProtectedPaths \ {DashboardPath}
    /\ ProtectedRouteView = "navigate"
    /\ NavigateTo(DashboardPath, user, net)
    /\ Quiet
    /\ UNCHANGED sessVars

\* ProtectedRoute: <Navigate to="/" replace />
ProtectedRedirect ==
    /\ path \in ProtectedPaths
    /\ ProtectedRouteView = "navigate"
    /\ NavigateTo(PublicPath, user, net)
    /\ Quiet
    /\ UNCHANGED sessVars

\* ProtectedRoute returns children: Onboarding mounts (it has no mount effect)
MountOnboarding ==
    /\ Renders(OnboardingPath)
    /\ mounted # path
    /\ mounted' = path
    /\ Quiet
    /\ UNCHANGED <<urlVars, sessVars, net, pageVars>>

\* variant: a Landing effect that does not look at the identity
LandingRedirect_IgnoresUser ==
    /\ path = PublicPath
    /\ ~loading
    /\ NavigateTo(DashboardPath, user, net)
    /\ Quiet
    /\ UNCHANGED sessVars

\* Landing: useEffect(() => { if (user && !loading) navigate('/dashboard') })
LandingRedirect ==
    /\ path = PublicPath
    /\ user # Null
    /\ ~loading
    /\ NavigateTo(DashboardPath, user, net)
    /\ Quiet
    /\ UNCHANGED sessVars

\* a navigate(p) click handler of the mounted page
ClickNavigate(p) ==
    /\ NavigateTo(p, user, net)
    /\ Quiet
    /\ UNCHANGED sessVars

\* ------------------------------------------------------- Onboarding.jsx
\* renderStep: the step whose form holds the input of `field`
StepOf(field) ==
    CASE field \in {"education", "current_role"} -> 0
      [] field \in {"tech_skills", "domain_skills", "soft_skills"} -> 1
      [] field = "excited_domains" -> 2
      [] field = "hours_per_week" -> 3
      [] field = "target_roles" -> 4

\* updateField(field, value)
UpdatedForm(fd, field, value) == [fd EXCEPT ![field] = value]

\* variant: a toggle that only ever adds
ToggledForm_AlwaysAppend(fd, field, item) == [fd EXCEPT ![field] = Append(fd[field], item)]

\* toggleArrayItem(field, item)
ToggledForm(fd, field, item) ==
    IF Includes(fd[field], item)
    THEN [fd EXCEPT ![field] = Filter(fd[field], item)]
    ELSE [fd EXCEPT ![field] = Append(fd[field], item)]

\* onChange of the education and current-role inputs
updateField(field, value) ==
    /\ WizardForm
    /\ currentStep = StepOf(field)
    /\ formData' = UpdatedForm(formData, field, value)
    /\ formData' # formData
    /\ Quiet
    /\ UNCHANGED <<urlVars, sessVars, net, mounted, currentStep, isSubmitting, isAnalyzing, dashVars, resVars>>

\* onChange of the hours-per-week input
updateHours(typed) ==
    /\ WizardForm
    /\ currentStep = StepOf("hours_per_week")
    /\ formData' = UpdatedForm(formData, "hours_per_week", HoursFromInput(typed))
    /\ formData' # formData
    /\ Quiet
    /\ UNCHANGED <<urlVars, sessVars, net, mounted, currentStep, isSubmitting, isAnalyzing, dashVars, resVars>>

\* onClick of an option badge
toggleArrayItem(field, item) ==
    /\ WizardForm
    /\ currentStep = StepOf(field)
    /\ formData' = ToggledForm(formData, field, item)
    /\ Quiet
    /\ UNCHANGED <<urlVars, sessVars, net, mounted, currentStep, isSubmitting, isAnalyzing, dashVars, resVars>>

\* onClick of prev-step-btn
Previous ==
    /\ WizardForm
    /\ ~PrevDisabled
    /\ currentStep' = currentStep - 1
    /\ Quiet
    /\ UNCHANGED <<urlVars, sessVars, net, mounted, isSubmitting, isAnalyzing, formData, dashVars, resVars>>

\* variant: a Next control that is rendered on the last step too
Next_PastLastStep ==
    /\ WizardForm
    /\ ~NextDisabled
    /\ currentStep' = currentStep + 1
    /\ Quiet
    /\ UNCHANGED <<urlVars, sessVars, net, mounted, isSubmitting, isAnalyzing, formData, dashVars, resVars>>

\* onClick of next-step-btn
Next_ ==
    /\ WizardForm
    /\ ShowsNext
    /\ ~NextDisabled
    /\ currentStep' = currentStep + 1
    /\ Quiet
    /\ UNCHANGED <<urlVars, sessVars, net, mounted, isSubmitting, isAnalyzing, formData, dashVars, resVars>>

\* onClick of submit-profile-btn: handleSubmit up to the await of saveProfile
handleSubmit ==
    /\ WizardForm
    /\ ~ShowsNext
    /\ ~SubmitDisabled
    /\ HasRoom(net)
    /\ isSubmitting' = TRUE
    /\ net' = Issue(net, Req("save", "-", <<>>, TRUE))
    /\ Quiet
    /\ UNCHANGED <<urlVars, sessVars, mounted, currentStep, isAnalyzing, formData, dashVars, resVars>>

\* variant: an analysis call that does not use the id returned by the save
AnalysisCall_FirstId(id, live) == Req("analyze", "p1", <<>>, live)

\* analysisApi.runAnalysis(profileResponse.data.id): the call issued for a save answered with id
AnalysisCall(id, live) == Req("analyze", id, <<>>, live)

\* handleSubmit, after saveProfile succeeded with id
SaveOk(r, id) ==
    /\ r.op = "save"
    /\ net' = Issue(Done(net, r), AnalysisCall(id, r.live))
    /\ IF r.live THEN isAnalyzing' = TRUE ELSE UNCHANGED isAnalyzing
    /\ toast' = <<"success: Profile saved!">>
    /\ console' = <<>>
    /\ Answer(r, 200, <<id>>)
    /\ UNCHANGED <<urlVars, sessVars, mounted, currentStep, isSubmitting, formData, dashVars, resVars>>

\* variant: handleSubmit's catch without its finally block
SubmitFailed_NoFinally(r) ==
    /\ net' = Done(net, r)
    /\ toast' = <<"error: Something went wrong">>
    /\ console' = <<"Error:">>
    /\ UNCHANGED <<isSubmitting, isAnalyzing>>
    /\ UNCHANGED <<urlVars, sessVars, mounted, currentStep, formData, dashVars, resVars>>

\* handleSubmit: catch and finally, for the call r
SubmitFailed(r) ==
    /\ net' = Done(net, r)
    /\ toast' = <<"error: Something went wrong">>
    /\ console' = <<"Error:">>
    /\ IF r.live
       THEN isSubmitting' = FALSE /\ isAnalyzing' = FALSE
       ELSE UNCHANGED <<isSubmitting, isAnalyzing>>
    /\ UNCHANGED <<urlVars, sessVars, mounted, currentStep, formData, dashVars, resVars>>

\* variant: a save failure that clears the draft
SaveFail_ResetsDraft(r, status) ==
    /\ r.op = "save"
    /\ net' = Done(net, r)
    /\ toast' = <<"error: Something went wrong">>
    /\ console' = <<"Error:">>
    /\ Answer(r, status, <<>>)
    /\ formData' = InitialFormData
    /\ isSubmitting' = FALSE
    /\ UNCHANGED <<urlVars, sessVars, mounted, currentStep, isAnalyzing, dashVars, resVars>>

\* handleSubmit, after saveProfile failed
SaveFail(r, status) ==
    /\ r.op = "save"
    /\ IF InterceptorRedirects(status)
       THEN PageLoad(PublicPath, NoHash) /\ Answer(r, status, <<>>)
       ELSE SubmitFailed(r) /\ Answer(r, status, <<>>)

\* variant: a submission that ends on the dashboard route
ReportRoute_Dashboard(rid) == DashboardPath

\* the route handleSubmit navigates to for report_id rid
ReportRoute(rid) == ResultsPath(rid)

\* handleSubmit, after runAnalysis succeeded with report_id rid
AnalyzeOk(r, rid) ==
    /\ r.op = "analyze"
    /\ NavigateTo(ReportRoute(rid), user, Done(net, r))
    /\ toast' = <<"success: Analysis complete!">>
    /\ console' = <<>>
    /\ Answer(r, 200, <<rid>>)
    /\ UNCHANGED sessVars

\* variant: an analysis failure that leaves the wizard in the Analyzing state
AnalyzeFail_StaysAnalyzing(r, status) ==
    /\ r.op = "analyze"
    /\ net' = Done(net, r)
    /\ toast' = <<"error: Something went wrong">>
    /\ console' = <<"Error:">>
    /\ Answer(r, status, <<>>)
    /\ UNCHANGED <<urlVars, sessVars, mounted, wizVars, dashVars, resVars>>

\* handleSubmit, after runAnalysis failed
AnalyzeFail(r, status) ==
    /\ r.op = "analyze"
    /\ IF InterceptorRedirects(status)
       THEN PageLoad(PublicPath, NoHash) /\ Answer(r, status, <<>>)
       ELSE SubmitFailed(r) /\ Answer(r, status, <<>>)

\* onClick of back-to-dashboard-btn
backToDashboard ==
    /\ WizardForm
    /\ ClickNavigate(DashboardPath)

\* ------------------------------------------------------------- Dashboard
\* ProtectedRoute returns children: Dashboard mounts and its effect runs fetchData
\* up to the await of Promise.all.  The two calls of the Promise.all are one entry
\* of net; its data are the state of listReports ("pending", "ok", "failed"), the
\* state of getProfile ("pending", "has", "none", "failed") and the list received.
MountDashboard ==
    /\ Renders(DashboardPath)
    /\ mounted # path
    /\ HasRoom(net)
    /\ mounted' = path
    /\ net' = Issue(net, Req("fetchData", "-", <<"pending", "pending">>, TRUE))
    /\ Quiet
    /\ UNCHANGED <<urlVars, sessVars, pageVars>>

ListState(r) == r.data[1]
ProfileState(r) == r.data[2]
ListReceived(r) == SubSeq(r.data, 3, Len(r.data))
\* Promise.all has been rejected: its catch and finally have run
AllRejected(r) == ListState(r) = "failed" \/ ProfileState(r) = "failed"
\* both calls have been answered
AllAnswered(r) == ListState(r) # "pending" /\ ProfileState(r) # "pending"

\* fetchData's calls after one more answer: r2 is r with that answer recorded
FetchProgress(r, r2) ==
    net' = IF AllAnswered(r2) THEN Done(net, r) ELSE Issue(Done(net, r), r2)

\* fetchData after Promise.all resolved: try block and finally
FetchResolved(r2) ==
    /\ reports' = ListReceived(r2)
    /\ hasProfile' = (ProfileState(r2) = "has")
    /\ dashLoading' = FALSE

\* one call of the Promise.all succeeded
FetchOk(r, r2) ==
    /\ FetchProgress(r, r2)
    /\ Silent
    /\ IF r.live /\ AllAnswered(r2) /\ ~AllRejected(r2)
       THEN FetchResolved(r2)
       ELSE UNCHANGED <<reports, hasProfile, dashLoading>>
    /\ UNCHANGED <<urlVars, sessVars, mounted, wizVars, deleteId, resVars>>

\* reportsApi.listReports() answered with the list rs
ListOk(r, rs) ==
    /\ r.op = "fetchData"
    /\ ListState(r) = "pending"
    /\ FetchOk(r, [r EXCEPT !.data = <<"ok", ProfileState(r)>> \o rs])
    /\ resp' = [op |-> "listReports", status |-> 200, data |-> rs]

\* profileApi.getProfile() answered with a profile (hp) or with none
ProfileOk(r, hp) ==
    /\ r.op = "fetchData"
    /\ ProfileState(r) = "pending"
    /\ FetchOk(r, [r EXCEPT !.data[2] = IF hp THEN "has" ELSE "none"])
    /\ resp' = [op |-> "getProfile", status |-> 200,
                data |-> IF hp THEN <<"profile">> ELSE <<>>]

\* one call of the Promise.all failed: catch and finally run at the first failure
FetchFail(r, r2, status) ==
    /\ FetchProgress(r, r2)
    /\ toast' = <<>>
    /\ console' = IF AllRejected(r) THEN <<>> ELSE <<"Error fetching data:">>
    /\ IF r.live /\ ~AllRejected(r)
       THEN dashLoading' = FALSE
       ELSE UNCHANGED dashLoading
    /\ UNCHANGED <<urlVars, sessVars, mounted, wizVars, reports, hasProfile,
                   deleteId, resVars>>

\* reportsApi.listReports() failed
ListFail(r, status) ==
    /\ r.op = "fetchData"
    /\ ListState(r) = "pending"
    /\ resp' = [op |-> "listReports", status |-> status, data |-> <<>>]
    /\ IF InterceptorRedirects(status)
       THEN PageLoad(PublicPath, NoHash)
       ELSE FetchFail(r, [r EXCEPT !.data[1] = "failed"], status)

\* profileApi.getProfile() failed
ProfileFail(r, status) ==
    /\ r.op = "fetchData"
    /\ ProfileState(r) = "pending"
    /\ resp' = [op |-> "getProfile", status |-> status, data |-> <<>>]
    /\ IF InterceptorRedirects(status)
       THEN PageLoad(PublicPath, NoHash)
       ELSE FetchFail(r, [r EXCEPT !.data[2] = "failed"], status)

\* the Dashboard's controls are on screen and no dialog covers them
DashboardView == mounted = DashboardPath /\ ~dashLoading /\ deleteId = Null

\* onClick of new-analysis-card, start-journey-btn and "Edit Profile"
openOnboarding ==
    /\ DashboardView
    /\ ClickNavigate(OnboardingPath)

\* onClick of a report card, "View Report" and latest-report-card
openReport(id) ==
    /\ DashboardView
    /\ Includes(reports, id)
    /\ ClickNavigate(ResultsPath(id))

\* onClick of "Delete" in a report's menu: setDeleteId(report.id)
askDelete(id) ==
    /\ DashboardView
    /\ Includes(reports, id)
    /\ deleteId' = id
    /\ Quiet
    /\ UNCHANGED <<urlVars, sessVars, net, mounted, wizVars, reports, hasProfile,
                   dashLoading, resVars>>

\* AlertDialogCancel: onOpenChange
cancelDelete ==
    /\ mounted = DashboardPath
    /\ deleteId # Null
    /\ deleteId' = Null
    /\ Quiet
    /\ UNCHANGED <<urlVars, sessVars, net, mounted, wizVars, reports, hasProfile,
                   dashLoading, resVars>>

\* AlertDialogAction: handleDelete(deleteId) up to its await, and onOpenChange
confirmDelete ==
    /\ mounted = DashboardPath
    /\ deleteId # Null
    /\ HasRoom(net)
    /\ net' = Issue(net, Req("deleteReport", deleteId, reports, TRUE))
    /\ deleteId' = Null
    /\ Quiet
    /\ UNCHANGED <<urlVars, sessVars, mounted, wizVars, reports, hasProfile,
                   dashLoading, resVars>>

\* reports.filter(r => r.id !== id), on the list handleDelete closed over
ReportsAfterDelete(list, id) == Filter(list, id)

\* handleDelete, after deleteReport succeeded
DeleteOk(r) ==
    /\ r.op = "deleteReport"
    /\ net' = Done(net, r)
    /\ toast' = <<"success: Report deleted">>
    /\ console' = <<>>
    /\ Answer(r, 200, <<>>)
    /\ IF r.live
       THEN reports' = ReportsAfterDelete(r.data, r.arg) /\ deleteId' = Null
       ELSE UNCHANGED <<reports, deleteId>>
    /\ UNCHANGED <<urlVars, sessVars, mounted, wizVars, hasProfile, dashLoading,
                   resVars>>

\* handleDelete, after deleteReport failed
DeleteFail(r, status) ==
    /\ r.op = "deleteReport"
    /\ IF InterceptorRedirects(status)
       THEN PageLoad(PublicPath, NoHash) /\ Answer(r, status, <<>>)
       ELSE /\ net' = Done(net, r)
            /\ toast' = <<"error: Failed to delete report">>
            /\ console' = <<>>
            /\ Answer(r, status, <<>>)
            /\ IF r.live THEN deleteId' = Null ELSE UNCHANGED deleteId
            /\ UNCHANGED <<urlVars, sessVars, mounted, wizVars, reports, hasProfile,
                           dashLoading, resVars>>

\* --------------------------------------------------------------- Results
\* Results mounts, or its :reportId changed: the effect runs fetchReport up to its await
MountResults ==
    /\ path \in ResultsPaths
    /\ Renders(path)
    /\ mounted # path
    /\ HasRoom(net)
    /\ mounted' = path
    /\ net' = Issue(net, Req("getReport", ReportIdOf(path), <<>>, TRUE))
    /\ Quiet
    /\ UNCHANGED <<urlVars, sessVars, pageVars>>

\* fetchReport, after getReport succeeded with milestones_completed ms
ReportOk(r, ms) ==
    /\ r.op = "getReport"
    /\ net' = Done(net, r)
    /\ Silent
    /\ Answer(r, 200, ms)
    /\ IF r.live
       THEN /\ report' = r.arg
            /\ completedMilestones' = ms
            /\ resLoading' = FALSE
       ELSE UNCHANGED resVars
    /\ UNCHANGED <<urlVars, sessVars, mounted, wizVars, dashVars>>

\* variant: a fetchReport whose catch only notifies
ReportFail_StaysOnReport(r, status) ==
    /\ r.op = "getReport"
    /\ net' = Done(net, r)
    /\ toast' = <<"error: Failed to load report">>
    /\ console' = <<>>
    /\ Answer(r, status, <<>>)
    /\ IF r.live
       THEN resLoading' = FALSE /\ UNCHANGED <<report, completedMilestones>>
       ELSE UNCHANGED resVars
    /\ UNCHANGED <<urlVars, sessVars, mounted, wizVars, dashVars>>

\* fetchReport, after getReport failed
ReportFail(r, status) ==
    /\ r.op = "getReport"
    /\ IF InterceptorRedirects(status)
       THEN PageLoad(PublicPath, NoHash) /\ Answer(r, status, <<>>)
       ELSE /\ NavigateTo(DashboardPath, user, Done(net, r))
            /\ toast' = <<"error: Failed to load report">>
            /\ console' = <<>>
            /\ Answer(r, status, <<>>)
            /\ UNCHANGED sessVars

\* the report is on screen
ResultsView == mounted \in ResultsPaths /\ mounted = path /\ ~resLoading /\ report # Null

\* onClick of the back button of the report header
backFromReport ==
    /\ ResultsView
    /\ ClickNavigate(DashboardPath)

\* variant: a toggle that only ever adds
ToggledMilestones_AppendOnly(ms, m) == Append(ms, m)

\* the list toggleMilestone computes
ToggledMilestones(ms, m) == IF Includes(ms, m) THEN Filter(ms, m) ELSE Append(ms, m)

\* toggleMilestone(m) up to its await
toggleMilestone(m) ==
    /\ ResultsView
    /\ HasRoom(net)
    /\ completedMilestones' = ToggledMilestones(completedMilestones, m)
    /\ net' = Issue(net, Req("updateMilestones", ReportIdOf(path),
                             ToggledMilestones(completedMilestones, m), TRUE))
    /\ Quiet
    /\ UNCHANGED <<urlVars, sessVars, mounted, wizVars, dashVars, report, resLoading>>

\* toggleMilestone, after updateMilestones succeeded
MilestonesOk(r) ==
    /\ r.op = "updateMilestones"
    /\ net' = Done(net, r)
    /\ Silent
    /\ Answer(r, 200, <<>>)
    /\ UNCHANGED <<urlVars, sessVars, mounted, pageVars>>

\* toggleMilestone, after updateMilestones failed
MilestonesFail(r, status) ==
    /\ r.op = "updateMilestones"
    /\ IF InterceptorRedirects(status)
       THEN PageLoad(PublicPath, NoHash) /\ Answer(r, status, <<>>)
       ELSE /\ net' = Done(net, r)
            /\ toast' = <<"error: Failed to update milestone">>
            /\ console' = <<>>
            /\ Answer(r, status, <<>>)
            /\ UNCHANGED <<urlVars, sessVars, mounted, pageVars>>

\* ------------------------------------------------------------------ Next
Next ==
    \/ handleAuth
    \/ \E r \in DOMAIN net, u \in Users : SessionOk(r, u)
    \/ \E r \in DOMAIN net, st \in Failures : SessionFail(r, st)
    \/ \E r \in DOMAIN net, u \in Users : MeOk(r, u)
    \/ \E r \in DOMAIN net, st \in Failures : MeFail(r, st)
    \/ \E t \in Tokens : login(t)
    \/ logout
    \/ \E r \in DOMAIN net : LogoutOk(r)
    \/ \E r \in DOMAIN net, st \in Failures : LogoutFail(r, st)
    \/ ProtectedRedirect
    \/ LandingRedirect
    \/ MountOnboarding
    \/ backToDashboard
    \/ \E f \in TextFields, v \in AppTextInputs : updateField(f, v)
    \/ \E v \in AppNumberInputs : updateHours(v)
    \/ \E t \in AppToggles : toggleArrayItem(t[1], t[2])
    \/ Previous
    \/ Next_
    \/ handleSubmit
    \/ \E r \in DOMAIN net, id \in ProfileIds : SaveOk(r, id)
    \/ \E r \in DOMAIN net, st \in Failures : SaveFail(r, st)
    \/ \E r \in DOMAIN net, rid \in AppReportIds : AnalyzeOk(r, rid)
    \/ \E r \in DOMAIN net, st \in Failures : AnalyzeFail(r, st)
    \/ MountDashboard
    \/ \E r \in DOMAIN net, rs \in AppReportLists : ListOk(r, rs)
    \/ \E r \in DOMAIN net, hp \in BOOLEAN : ProfileOk(r, hp)
    \/ \E r \in DOMAIN net, st \in Failures : ListFail(r, st)
    \/ \E r \in DOMAIN net, st \in Failures : ProfileFail(r, st)
    \/ openOnboarding
    \/ \E id \in ReportIds : openReport(id)
    \/ \E id \in ReportIds : askDelete(id)
    \/ cancelDelete
    \/ confirmDelete
    \/ \E r \in DOMAIN net : DeleteOk(r)
    \/ \E r \in DOMAIN net, st \in Failures : DeleteFail(r, st)
    \/ MountResults
    \/ \E r \in DOMAIN net, ms \in AppMilestoneLists : ReportOk(r, ms)
    \/ \E r \in DOMAIN net, st \in Failures : ReportFail(r, st)
    \/ backFromReport
    \/ \E m \in AppMilestones : toggleMilestone(m)
    \/ \E r \in DOMAIN net : MilestonesOk(r)
    \/ \E r \in DOMAIN net, st \in Failures : MilestonesFail(r, st)

Spec == Init /\ [][Next]_vars

\* the bootstrap call of the page load is answered: the continuation of
\* processSessionId or of checkSession runs
BootAnswer ==
    \E r \in DOMAIN net :
       \/ \E u \in Users : SessionOk(r, u) \/ MeOk(r, u)
       \/ \E st \in Failures : SessionFail(r, st) \/ MeFail(r, st)

\* The application with its scheduling: React runs the mount effect of a page that
\* has loaded, the bootstrap call is answered or rejected, and a rendered
\* <Navigate> or a Landing effect whose condition holds is carried out.
SpecLive ==
    /\ Init
    /\ [][Next]_vars
    /\ WF_vars(handleAuth)
    /\ WF_vars(BootAnswer)
    /\ WF_vars(LandingRedirect)
    /\ WF_vars(ProtectedRedirect)

\* One wizard, from its mount to the end of its submissions, with every input:
\* the identity was resolved by /auth/me on a page load of /onboarding.
InitWizard ==
    /\ path = OnboardingPath
    /\ hash = NoHash
    /\ user \in Users
    /\ loading = FALSE
    /\ booted = TRUE
    /\ authLog = << <<"me", "-">> >>
    /\ net = NoCalls
    /\ mounted = OnboardingPath
    /\ currentStep = 0
    /\ isSubmitting = FALSE
    /\ isAnalyzing = FALSE
    /\ formData = InitialFormData
    /\ reports = <<>>
    /\ hasProfile = FALSE
    /\ dashLoading = TRUE
    /\ deleteId = Null
    /\ report = Null
    /\ resLoading = TRUE
    /\ completedMilestones = <<>>
    /\ toast = <<>>
    /\ console = <<>>
    /\ resp = NoResp

NextWizard ==
    \/ \E f \in TextFields, v \in TextInputs : updateField(f, v)
    \/ \E v \in NumberInputs : updateHours(v)
    \/ \E t \in Toggles : toggleArrayItem(t[1], t[2])
    \/ Previous
    \/ Next_
    \/ handleSubmit
    \/ \E r \in DOMAIN net, id \in ProfileIds : SaveOk(r, id)
    \/ \E r \in DOMAIN net, st \in Failures : SaveFail(r, st)
    \/ \E r \in DOMAIN net, rid \in ReportIds : AnalyzeOk(r, rid)
    \/ \E r \in DOMAIN net, st \in Failures : AnalyzeFail(r, st)

SpecWizard == InitWizard /\ [][NextWizard]_vars

\* reportsRes.data: the lists of distinct reports the backend can answer with
ReportLists ==
    {<<>>} \cup {<<a>> : a \in ReportIds}
           \cup {ab \in ReportIds \X ReportIds : ab[1] # ab[2]}

\* one Dashboard, from its mount (fetchData awaiting Promise.all) to its last answer
InitDashboard ==
    /\ path = DashboardPath
    /\ hash = NoHash
    /\ user \in Users
    /\ loading = FALSE
    /\ booted = TRUE
    /\ authLog = << <<"me", "-">> >>
    /\ net = Issue(NoCalls, Req("fetchData", "-", <<"pending", "pending">>, TRUE))
    /\ mounted = DashboardPath
    /\ currentStep = 0
    /\ isSubmitting = FALSE
    /\ isAnalyzing = FALSE
    /\ formData = InitialFormData
    /\ reports = <<>>
    /\ hasProfile = FALSE
    /\ dashLoading = TRUE
    /\ deleteId = Null
    /\ report = Null
    /\ resLoading = TRUE
    /\ completedMilestones = <<>>
    /\ toast = <<>>
    /\ console = <<>>
    /\ resp = NoResp

NextDashboard ==
    \/ \E r \in DOMAIN net, rs \in ReportLists : ListOk(r, rs)
    \/ \E r \in DOMAIN net, hp \in BOOLEAN : ProfileOk(r, hp)
    \/ \E r \in DOMAIN net, st \in Failures : ListFail(r, st)
    \/ \E r \in DOMAIN net, st \in Failures : ProfileFail(r, st)
    \/ \E id \in ReportIds : askDelete(id)
    \/ cancelDelete
    \/ confirmDelete
    \/ \E r \in DOMAIN net : DeleteOk(r)
    \/ \E r \in DOMAIN net, st \in Failures : DeleteFail(r, st)

SpecDashboard == InitDashboard /\ [][NextDashboard]_vars

\* response.data.milestones_completed: the lists the backend can answer with
MilestoneLists == {<<>>, <<"m1">>, <<"m2", "m1">>}

\* one Results page, from its mount (fetchReport awaiting getReport) on
InitResults ==
    /\ path = ResultsPath("r1")
    /\ hash = NoHash
    /\ user \in Users
    /\ loading = FALSE
    /\ booted = TRUE
    /\ authLog = << <<"me", "-">> >>
    /\ net = Issue(NoCalls, Req("getReport", "r1", <<>>, TRUE))
    /\ mounted = ResultsPath("r1")
    /\ currentStep = 0
    /\ isSubmitting = FALSE
    /\ isAnalyzing = FALSE
    /\ formData = InitialFormData
    /\ reports = <<>>
    /\ hasProfile = FALSE
    /\ dashLoading = TRUE
    /\ deleteId = Null
    /\ report = Null
    /\ resLoading = TRUE
    /\ completedMilestones = <<>>
    /\ toast = <<>>
    /\ console = <<>>
    /\ resp = NoResp

NextResults ==
    \/ \E r \in DOMAIN net, ms \in MilestoneLists : ReportOk(r, ms)
    \/ \E r \in DOMAIN net, st \in Failures : ReportFail(r, st)
    \/ backFromReport
    \/ \E m \in Milestones : toggleMilestone(m)
    \/ \E r \in DOMAIN net : MilestonesOk(r)
    \/ \E r \in DOMAIN net, st \in Failures : MilestonesFail(r, st)

SpecResults == InitResults /\ [][NextResults]_vars

TypeOK ==
    /\ path \in Paths
    /\ hash \in Hashes
    /\ user \in Users \cup {Null}
    /\ loading \in BOOLEAN
    /\ booted \in BOOLEAN
    /\ Len(authLog) <= 1
    /\ InFlight(net) <= MaxInFlight
    /\ \A r \in DOMAIN net : r.op \in Ops /\ net[r] >= 1
    /\ mounted \in ProtectedPaths \cup {"none"}
    /\ currentStep \in 0..LastStep
    /\ isSubmitting \in BOOLEAN
    /\ isAnalyzing \in BOOLEAN
    /\ hasProfile \in BOOLEAN
    /\ dashLoading \in BOOLEAN
    /\ deleteId \in ReportIds \cup {Null}
    /\ report \in ReportIds \cup {Null}
    /\ resLoading \in BOOLEAN

\* ---------------------------------------------------------------- claims
\* calls of an operation in flight, whatever became of the component awaiting them
AnalyzeCalls(n, id) ==
    Count(n, Req("analyze", id, <<>>, TRUE)) + Count(n, Req("analyze", id, <<>>, FALSE))
SaveCalls(n) ==
    Count(n, Req("save", "-", <<>>, TRUE)) + Count(n, Req("save", "-", <<>>, FALSE))
LiveSave == Req("save", "-", <<>>, TRUE)
ErrorNotice == <<"error: Something went wrong">>

\* the last step handled a response to `op`
Handled(op) == resp.op = op
SaveFailed == resp.op = "save" /\ resp.status # 200

\* C1 as stated: whenever "save profile" fails, no "run analysis" call is issued, the
\* wizard is on the last step (index 5) and not Analyzing, and an error notice is shown.
C1_AsStated ==
    [][ SaveFailed' =>
          /\ \A id \in ProfileIds : AnalyzeCalls(net', id) <= AnalyzeCalls(net, id)
          /\ mounted' = OnboardingPath
          /\ currentStep' = LastStep
          /\ ~isAnalyzing'
          /\ toast' = ErrorNotice ]_vars

\* C1 amended: a failed "save profile" never issues "run analysis" and ends that
\* submission.  A 401 off the public view reloads the application on the public view.
\* Any other failure shows an error notice and leaves the step index and the mounted
\* page as they were; the wizard that submitted, if still mounted, is left neither
\* submitting nor Analyzing.
C1_SaveFailureStops ==
    [][ SaveFailed' =>
          /\ \A id \in ProfileIds : AnalyzeCalls(net', id) <= AnalyzeCalls(net, id)
          /\ IF resp'.status = 401 /\ path # PublicPath
             THEN path' = PublicPath /\ loading' /\ mounted' = "none" /\ net' = NoCalls
             ELSE /\ toast' = ErrorNotice
                  /\ SaveCalls(net') = SaveCalls(net) - 1
                  /\ currentStep' = currentStep
                  /\ mounted' = mounted
                  /\ path' = path
                  /\ Count(net', LiveSave) < Count(net, LiveSave) =>
                        /\ mounted' = OnboardingPath
                        /\ ~isSubmitting'
                        /\ ~isAnalyzing' ]_vars

\* a save has just failed with the wizard still on its last step
C1_Witness ==
    /\ SaveFailed
    /\ resp.status = 500
    /\ mounted = OnboardingPath
    /\ currentStep = LastStep
    /\ ~isSubmitting
    /\ ~isAnalyzing
    /\ toast = ErrorNotice

\* C2: every "run analysis" call is issued by the step that handles a successful
\* "save profile" response, and carries exactly the id that response returned.
C2_AnalysisAfterSave ==
    [][ \A id \in ProfileIds :
          AnalyzeCalls(net', id) > AnalyzeCalls(net, id) =>
             /\ resp' = [op |-> "save", status |-> 200, data |-> <<id>>]
             /\ SaveCalls(net') = SaveCalls(net) - 1
             /\ AnalyzeCalls(net', id) = AnalyzeCalls(net, id) + 1 ]_vars

\* an analysis for the id p2 is in flight after the save that returned p2
C2_Witness ==
    /\ resp = [op |-> "save", status |-> 200, data |-> <<"p2">>]
    /\ AnalyzeCalls(net, "p2") = 1
    /\ AnalyzeCalls(net, "p1") = 0
    /\ isAnalyzing

\* C3: a save answered with id p issues "run analysis" with exactly profile_id p (one
\* call, for no other id), and an analysis answered with report_id r leaves the
\* application on /results/r.
C3_SuccessNavigates ==
    /\ [](Handled("analyze") /\ resp.status = 200 => path = ResultsPath(resp.data[1]))
    /\ [][ resp'.op = "save" /\ resp'.status = 200 =>
             \A id \in ProfileIds :
                AnalyzeCalls(net', id) =
                   AnalyzeCalls(net, id) + (IF resp'.data = <<id>> THEN 1 ELSE 0) ]_vars

\* the analysis has just succeeded with report r1 and the report route is current
C3_Witness ==
    /\ resp = [op |-> "analyze", status |-> 200, data |-> <<"r1">>]
    /\ path = "/results/r1"
    /\ toast = <<"success: Analysis complete!">>

\* the gate table of the specification, written out
GateTable(step) ==
    CASE step = 0 -> formData.education # "" /\ formData.current_role # ""
      [] step = 1 -> formData.tech_skills # <<>> \/ formData.domain_skills # <<>>
      [] step = 2 -> formData.excited_domains # <<>>
      [] step = 3 -> formData.hours_per_week > 0
      [] step = 4 -> formData.target_roles # <<>>
      [] step = 5 -> TRUE

\* the right-hand control of the wizard (Next, or submit on the last step) reacts
AdvanceEnabled == IF currentStep < 5 THEN ENABLED Next_ ELSE ENABLED handleSubmit

\* C4 as stated: on every step the control is enabled iff the step's gate holds.
C4_AsStated == WizardForm => (AdvanceEnabled <=> GateTable(currentStep))

\* C4 amended: the control is enabled iff the step's gate holds and, on the last
\* step, no submission is in progress; while the gate does not hold the step index
\* cannot advance and no backend call is issued.
C4_GateEnablesNext ==
    /\ [](WizardForm =>
            (AdvanceEnabled <=>
                GateTable(currentStep) /\ (currentStep = 5 => ~isSubmitting)))
    /\ [][ WizardForm /\ ~GateTable(currentStep) =>
             currentStep' <= currentStep /\ InFlight(net') <= InFlight(net) ]_vars

\* the wizard stands on the Skills step with the gate closed, after passing Background
C4_Witness ==
    /\ WizardForm
    /\ currentStep = 1
    /\ ~GateTable(1)
    /\ ~ENABLED Next_
    /\ formData.soft_skills # <<>>

\* the fragment of the URL carries the one-time token t
TokenHash(t) == << <<"session_id", t>> >>

\* C5: a bootstrap that starts from a fragment session_id=T calls the token exchange
\* once, with T, and never the session resolution; no bootstrap makes more than one
\* call; a successful exchange leaves the controller Authenticated with the identity
\* returned.
C5_TokenExchangeOnly ==
    /\ Len(authLog) <= 1
    /\ \A t \in Tokens :
          booted /\ hash = TokenHash(t) =>
             /\ authLog = << <<"session", t>> >>
             /\ net = Issue(NoCalls, Req("session", t, <<>>, TRUE))
    /\ Handled("session") /\ resp.status = 200 =>
          /\ resp.data = <<user>>
          /\ user \in Users
          /\ ~loading
          /\ \E t \in Tokens : authLog = << <<"session", t>> >>

\* the exchange of abc123 has succeeded
C5_Witness ==
    /\ Handled("session")
    /\ resp.status = 200
    /\ user = "u1"
    /\ ~loading
    /\ authLog = << <<"session", "abc123">> >>

\* C6: a bootstrap that starts without a fragment token calls only the session
\* resolution, and when that succeeds the controller is Authenticated with the
\* identity resolved.
C6_SessionResolutionOnly ==
    /\ booted /\ loading /\ hash \notin {TokenHash(t) : t \in Tokens} =>
          /\ authLog = << <<"me", "-">> >>
          /\ net = Issue(NoCalls, Req("me", "-", <<>>, TRUE))
    /\ Handled("me") /\ resp.status = 200 =>
          /\ resp.data = <<user>>
          /\ user \in Users
          /\ ~loading
          /\ authLog = << <<"me", "-">> >>

\* the session resolution has succeeded on a load without fragment
C6_Witness ==
    /\ Handled("me")
    /\ resp.status = 200
    /\ hash = NoHash
    /\ user = "u1"
    /\ ~loading
    /\ authLog = << <<"me", "-">> >>

\* C7 as stated: after any response with status 401, whichever component issued the
\* call, no identity is exposed and the public entry view is the current route.
C7_AsStated == resp.status = 401 => user = Null /\ path = PublicPath

\* the bootstrap call of this page load has been answered
BootstrapCompleted ==
    /\ booted
    /\ authLog # <<>>
    /\ \A r \in DOMAIN net : r.op \notin {"me", "session"}

\* C8 as stated: while loading is true no protected page is rendered and nothing
\* moves the application from another route to the public entry view.
C8_AsStated ==
    /\ [](loading => mounted = "none")
    /\ [][ loading => ~(path # PublicPath /\ path' = PublicPath) ]_vars

\* C8 amended: while loading is true no protected page is mounted and the route guard
\* does not redirect; the route changes only in the step that handles the answer to
\* the bootstrap call (the interceptor's 401 redirect, the exchange's navigation); a
\* protected page is mounted only after that call was answered.
C8_LoadingGate ==
    /\ [](loading => mounted = "none" /\ ~ENABLED ProtectedRedirect)
    /\ [](mounted # "none" => BootstrapCompleted)
    /\ [][ loading /\ path' # path => resp'.op \in {"me", "session"} ]_vars

\* a protected route is current while the bootstrap call is still awaited
C8_Witness ==
    /\ loading
    /\ booted
    /\ path \in ProtectedPaths
    /\ InFlight(net) = 1
    /\ mounted = "none"

\* C9: once loading is false, a protected route without identity renders no protected
\* page and the route guard redirects, to the public entry view; a protected page is
\* mounted only while an identity is held.
C9_AnonymousRedirected ==
    /\ [](~loading /\ user = Null /\ path \in ProtectedPaths =>
             mounted = "none" /\ ENABLED ProtectedRedirect)
    /\ [](mounted # "none" => user # Null /\ ~loading /\ path \in ProtectedPaths)
    /\ [][ ~loading /\ user = Null /\ path \in ProtectedPaths /\ resp' = NoResp
             => path' = PublicPath /\ user' = Null ]_vars

\* the route guard has sent an anonymous visitor of a protected route to the public view
C9_Witness ==
    /\ path = PublicPath
    /\ user = Null
    /\ ~loading
    /\ booted
    /\ resp = NoResp
    /\ authLog = << <<"me", "-">> >>

Selected(list) == {list[i] : i \in DOMAIN list}

\* C11: on every draft the wizard can hold, for every selection field and every item
\* of it: one toggle adds the item if it is absent and removes it if it is present,
\* two toggles of the same item give back the field's set of selected labels, and
\* neither changes any other field; and every step that changes a selection field
\* of the mounted wizard adds or removes exactly one label and changes no other field.
C11_ToggleRoundTrip ==
    /\ [](\A field \in ArrayFields : \A item \in Options(field) :
            LET once == ToggledForm(formData, field, item)
                twice == ToggledForm(once, field, item)
                was == Selected(formData[field])
            IN  /\ Selected(once[field]) =
                      IF item \in was THEN was \ {item} ELSE was \cup {item}
                /\ Selected(twice[field]) = was
                /\ Len(twice[field]) = Len(formData[field])
                /\ \A other \in DOMAIN formData \ {field} :
                      once[other] = formData[other] /\ twice[other] = formData[other])
    /\ [][ \A field \in ArrayFields :
             (formData'[field] # formData[field] /\ mounted' = mounted /\ resp' = NoResp) =>
                /\ \E item \in Options(field) :
                      \/ /\ item \notin Selected(formData[field])
                         /\ Selected(formData'[field]) = Selected(formData[field]) \cup {item}
                      \/ /\ item \in Selected(formData[field])
                         /\ Selected(formData'[field]) = Selected(formData[field]) \ {item}
                /\ \A other \in DOMAIN formData \ {field} :
                      formData'[other] = formData[other] ]_vars

\* Python was selected, then React, then Python was toggled off and on again: the
\* set is the one before the two toggles, the order is not
C11_Witness ==
    /\ WizardForm
    /\ currentStep = 1
    /\ formData.tech_skills = <<"React", "Python">>
    /\ ToggledForm(ToggledForm(formData, "tech_skills", "React"),
                   "tech_skills", "React").tech_skills = <<"Python", "React">>

\* the step handles the answer `status` to a "delete report" call for report id
DeleteAnswered(id, status) ==
    /\ resp'.op = "deleteReport"
    /\ resp'.status = status
    /\ \E r \in DOMAIN net :
          r.op = "deleteReport" /\ r.arg = id /\ r.live /\ Count(net', r) < Count(net, r)

\* C12 as stated: the step that handles a successful delete of report R takes exactly
\* R out of the displayed list, keeping every other entry and the order; the step
\* that handles a failed delete (one the interceptor does not answer with a page
\* load) leaves the list as it was and shows an error notice.
C12_AsStated ==
    [][ \A id \in ReportIds :
          /\ DeleteAnswered(id, 200) => reports' = Filter(reports, id)
          /\ (\E st \in Failures : DeleteAnswered(id, st) /\ ~InterceptorRedirects(st)) =>
                reports' = reports /\ toast' = <<"error: Failed to delete report">> ]_vars

AnalyzeFailed == resp.op = "analyze" /\ resp.status # 200

\* the step consumes an analysis call whose wizard is still mounted
LiveAnalyzeDone ==
    \E id \in ProfileIds :
       Count(net', Req("analyze", id, <<>>, TRUE)) < Count(net, Req("analyze", id, <<>>, TRUE))

\* C13 as stated: whenever "run analysis" fails, the wizard is shown on the last step,
\* out of the Analyzing state, with an error notice and the submit control enabled.
C13_AsStated ==
    [][ AnalyzeFailed' =>
          /\ mounted' = OnboardingPath
          /\ ~isAnalyzing'
          /\ toast' = ErrorNotice
          /\ currentStep' = LastStep
          /\ ~SubmitDisabled' ]_vars

\* C13 amended: a failed "run analysis" that is a 401 off the public view reloads the
\* application on the public view.  Any other failure shows an error notice and
\* leaves the step index, the draft and the mounted page as they were; the wizard
\* that submitted, if still mounted, was Analyzing and is left neither Analyzing nor
\* submitting, so that on the last step the submit control is enabled again.  Every
\* submission, the first or a later one, starts by issuing "save profile" and no
\* "run analysis".
C13_AnalysisFailureRecovers ==
    /\ [][ AnalyzeFailed' =>
             IF resp'.status = 401 /\ path # PublicPath
             THEN path' = PublicPath /\ loading' /\ mounted' = "none" /\ net' = NoCalls
             ELSE /\ toast' = ErrorNotice
                  /\ currentStep' = currentStep
                  /\ mounted' = mounted
                  /\ LiveAnalyzeDone =>
                        /\ isAnalyzing
                        /\ mounted' = OnboardingPath
                        /\ ~isAnalyzing'
                        /\ ~isSubmitting'
                        /\ currentStep' = LastStep => ~SubmitDisabled' ]_vars
    /\ [][ (isSubmitting' /\ ~isSubmitting) =>
             /\ Count(net', LiveSave) = Count(net, LiveSave) + 1
             /\ \A id \in ProfileIds : AnalyzeCalls(net', id) = AnalyzeCalls(net, id) ]_vars

\* the analysis has just failed and the wizard is back on its last step, ready to submit
C13_Witness ==
    /\ AnalyzeFailed
    /\ resp.status = 500
    /\ WizardForm
    /\ currentStep = LastStep
    /\ ~isSubmitting
    /\ toast = ErrorNotice
    /\ ENABLED handleSubmit

SubmissionFailed == SaveFailed \/ AnalyzeFailed

\* C14 as stated: the step that handles a failed "save profile" or "run analysis"
\* leaves the draft and the step index untouched, and the step index is the one the
\* submission was issued from (the last step).
C14_AsStated ==
    [][ SubmissionFailed' =>
          /\ formData' = formData
          /\ currentStep' = currentStep
          /\ currentStep' = LastStep ]_vars

\* C14 amended: the step that handles a failed "save profile" or "run analysis" leaves
\* every field of the draft, the step index and the mounted page as it found them,
\* unless the failure is a 401 off the public view: then the application is reloaded
\* and the draft is the initial one again.
C14_FailureKeepsDraft ==
    [][ SubmissionFailed' =>
          IF resp'.status = 401 /\ path # PublicPath
          THEN formData' = InitialFormData /\ currentStep' = 0 /\ mounted' = "none"
          ELSE /\ \A field \in DOMAIN formData : formData'[field] = formData[field]
               /\ currentStep' = currentStep
               /\ mounted' = mounted ]_vars

\* a submission has just failed and the wizard still holds the draft that was filled in
C14_Witness ==
    /\ SubmissionFailed
    /\ resp.status = 500
    /\ WizardForm
    /\ currentStep = LastStep
    /\ formData.education = "BSc"
    /\ formData.target_roles = <<"Solo Founder">>
    /\ ~isSubmitting

RECURSIVE SumOver(_, _)
\* the sum of f over the finite set S
SumOver(f, S) ==
    IF S = {} THEN 0
    ELSE LET x == CHOOSE x \in S : TRUE IN f[x] + SumOver(f, S \ {x})

\* submissions in flight: calls of the save / analysis sequence not yet answered
SubmissionsInFlight ==
    SaveCalls(net) + SumOver([id \in ProfileIds |-> AnalyzeCalls(net, id)], ProfileIds)
\* those of them whose wizard is still mounted
LiveSubmissions ==
    Count(net, LiveSave)
        + SumOver([id \in ProfileIds |-> Count(net, Req("analyze", id, <<>>, TRUE))], ProfileIds)

\* C15 as stated: at any time at most one "save profile"/"run analysis" sequence is
\* awaiting an answer.
C15_AsStated == SubmissionsInFlight <= 1

\* C15 amended: a mounted wizard has at most one submission in flight; it is submitting
\* exactly while that submission awaits an answer, the submit control is disabled all
\* that time, and a "save profile" call is issued only by a wizard that was not
\* submitting.  (Submissions of wizards that were left are not counted.)
C15_OneSubmissionPerWizard ==
    /\ [](LiveSubmissions <= 1)
    /\ [](LiveSubmissions = 1 => mounted = OnboardingPath /\ isSubmitting)
    /\ [](mounted = OnboardingPath /\ isSubmitting => LiveSubmissions = 1)
    /\ [](isSubmitting => SubmitDisabled /\ ~ENABLED handleSubmit)
    /\ [][ SaveCalls(net') > SaveCalls(net) =>
             /\ ~isSubmitting
             /\ isSubmitting'
             /\ LiveSubmissions = 0
             /\ Count(net', LiveSave) = 1 ]_vars

\* the save is pending, the gate of the last step holds, a call could still be issued,
\* and the submit control does not react
C15_Witness ==
    /\ WizardForm
    /\ currentStep = LastStep
    /\ isSubmitting
    /\ Count(net, LiveSave) = 1
    /\ canProceed
    /\ HasRoom(net)
    /\ ~ENABLED handleSubmit

\* some control of the wizard reacts to the user
WizardUserAction ==
    \/ \E f \in TextFields, v \in TextInputs : updateField(f, v)
    \/ \E v \in NumberInputs : updateHours(v)
    \/ \E t \in Toggles : toggleArrayItem(t[1], t[2])
    \/ Previous
    \/ Next_
    \/ handleSubmit
    \/ backToDashboard

\* the analysis calls of the mounted wizard that await their answer
LiveAnalyses ==
    SumOver([id \in ProfileIds |-> Count(net, Req("analyze", id, <<>>, TRUE))], ProfileIds)

C17_SaveOnlyFromLastStep ==
    /\ [][ SaveCalls(net') > SaveCalls(net) =>
             /\ mounted = OnboardingPath
             /\ currentStep = LastStep
             /\ currentStep' = LastStep
             /\ GateTable(LastStep)
             /\ resp' = NoResp
             /\ InFlight(net') = InFlight(net) + 1 ]_vars
    /\ [][ (mounted = OnboardingPath /\ resp' = NoResp /\ InFlight(net') # InFlight(net)) =>
             /\ currentStep = LastStep
             /\ Count(net', LiveSave) = Count(net, LiveSave) + 1 ]_vars

\* the submit control of the last step has just issued the save
C17_Witness ==
    /\ WizardForm
    /\ currentStep = LastStep
    /\ isSubmitting
    /\ Count(net, LiveSave) = 1
    /\ InFlight(net) = 1
    /\ resp = NoResp

\* C18: on the step form "Previous" is enabled exactly when the step index is above 0,
\* whatever the gates say; a step that lowers the step index of the mounted wizard
\* lowers it by exactly one and changes neither the draft nor the calls in flight.
C18_PreviousAlwaysAllowed ==
    /\ [](WizardForm => (ENABLED Previous <=> currentStep > 0))
    /\ [](WizardForm /\ currentStep = 0 => PrevDisabled)
    /\ [][ (currentStep' < currentStep /\ mounted' = mounted) =>
             /\ currentStep' = currentStep - 1
             /\ formData' = formData
             /\ net' = net
             /\ resp' = NoResp ]_vars

\* the Constraints step with its gate closed (hours not above 0): Previous still reacts
C18_Witness ==
    /\ WizardForm
    /\ currentStep = 3
    /\ ~GateTable(3)
    /\ ~ENABLED Next_
    /\ ENABLED Previous

ExchangeFailed == resp.op = "session" /\ resp.status # 200

\* the bootstrap of this page load was a token exchange, it is over without identity,
\* the public view is current and no call is pending
ExchangeLeftAnonymous ==
    /\ booted
    /\ authLog # <<>>
    /\ authLog[1][1] = "session"
    /\ ~loading
    /\ user = Null
    /\ path = PublicPath
    /\ mounted = "none"
    /\ net = NoCalls

ExchangeCalls(n) ==
    SumOver([t \in Tokens |-> Count(n, Req("session", t, <<>>, TRUE))
                                + Count(n, Req("session", t, <<>>, FALSE))], Tokens)

ResolutionFailed == resp.op = "me" /\ resp.status # 200

PageReload == booted /\ ~booted' /\ user' = Null /\ loading' /\ net' = NoCalls

\* C22 as stated: the identity changes only in a step that handles the answer to a
\* token exchange, a session resolution or a logout (or in login's own page load),
\* becomes non-null only from a successful exchange or resolution, and no step that
\* handles the answer to a wizard, dashboard or report call changes it.
C22_AsStated ==
    /\ [][ user' # user =>
             resp'.op \in AuthOps \/ (resp' = NoResp /\ PageReload) ]_vars
    /\ [][ user' # Null /\ user' # user =>
             resp'.op \in {"me", "session"} /\ resp'.status = 200 ]_vars
    /\ [][ resp'.op \in PageOps => user' = user ]_vars

\* C22 amended: within one page load the identity changes only in a step that
\* handles the answer to a token exchange, a session resolution or a logout; it
\* becomes non-null only as the identity a successful exchange or resolution
\* returned; a user action or an answer to a wizard, dashboard or report call
\* leaves it alone, except that a page load (login's redirect, or the
\* interceptor's on a 401 off the public view) starts over without identity.
C22_IdentityFrame ==
    /\ [][ user' # user =>
             \/ resp'.op \in AuthOps /\ booted /\ booted'
             \/ PageReload /\ resp' = NoResp /\ path = PublicPath
             \/ PageReload /\ resp'.status = 401 /\ path # PublicPath ]_vars
    /\ [][ user' # Null /\ user' # user =>
             /\ resp'.op \in {"me", "session"}
             /\ resp'.status = 200
             /\ resp'.data = <<user'>>
             /\ user = Null ]_vars
    /\ [][ resp'.op \in PageOps /\ ~(resp'.status = 401 /\ path # PublicPath) =>
             user' = user ]_vars
    /\ [][ resp' = NoResp /\ ~PageReload => user' = user ]_vars

\* a failed "save profile" has been handled and the identity is still held
C22_Witness ==
    /\ resp.op = "save"
    /\ resp.status = 500
    /\ user = "u1"
    /\ mounted = OnboardingPath
    /\ booted

\* the last step handled a failed "get report"
GetReportFailed == resp.op = "getReport" /\ resp.status # 200

GatesBelow(k) == \A j \in 0..(k - 1) : GateTable(j)

\* C24: while the wizard is mounted on step k the gates of all steps before k hold
\* on the draft, whatever Next, Previous, edits and toggles came before; and a step
\* that issues "save profile" is taken on the last step with all six gates holding
\* on the draft it sends.
C24_GatesBehindHold ==
    /\ [](mounted = OnboardingPath => GatesBelow(currentStep))
    /\ [][ SaveCalls(net') > SaveCalls(net) =>
             /\ currentStep = LastStep
             /\ GatesBelow(Len(STEPS))
             /\ formData' = formData ]_vars

\* the user went on to the Goals step and came back to Passions, where the toggle
\* that opened the gate was undone: the gates behind still hold
C24_Witness ==
    /\ WizardForm
    /\ currentStep = 2
    /\ formData.target_roles # <<>>
    /\ ~GateTable(2)
    /\ GatesBelow(2)

\* C25 as stated: when the last of several overlapping deletions has been answered
\* with success, the list displayed holds neither the report of that deletion nor
\* any report that an earlier answer had taken off the list.
C25_AsStated ==
    [][ \A id \in ReportIds :
          DeleteAnswered(id, 200) /\ net' = NoCalls =>
             /\ ~Includes(reports', id)
             /\ \A other \in ReportIds :
                   Includes(reports', other) => Includes(reports, other) ]_vars

\* the last step handled the answer to a bootstrap call
BootAnswered == resp.op \in {"me", "session"}

AuthOnPublic == path = PublicPath /\ user # Null /\ ~loading
AnonOnProtected == path \in ProtectedPaths /\ user = Null /\ ~loading
RedirectPending == AuthOnPublic \/ AnonOnProtected

\* C26: the Landing redirect is due exactly for an authenticated user on the public
\* view and the protected-route redirect exactly for an anonymous user on a
\* protected view; each is carried out, unless a backend answer or a page load
\* comes first; the Landing redirect leads to the dashboard and the protected-route
\* redirect to the public view, both leave the session alone and after either no
\* redirect is due; and where no redirect is due, no step other than the handling
\* of a backend answer makes one due.
C26_RedirectsSettle ==
    /\ []((ENABLED LandingRedirect <=> AuthOnPublic)
           /\ (ENABLED ProtectedRedirect <=> AnonOnProtected))
    /\ AuthOnPublic ~> ~AuthOnPublic
    /\ AnonOnProtected ~> ~AnonOnProtected
    /\ [][ LandingRedirect =>
             path' = DashboardPath /\ ~RedirectPending' /\ UNCHANGED sessVars ]_vars
    /\ [][ ProtectedRedirect =>
             path' = PublicPath /\ ~RedirectPending' /\ UNCHANGED sessVars ]_vars
    /\ [][ ~RedirectPending /\ resp' = NoResp => ~RedirectPending' ]_vars

\* the session resolution failed on a protected route and the visitor has been
\* sent to the public view, where no redirect is due
C26_Witness ==
    /\ path = PublicPath
    /\ hash = NoHash
    /\ user = Null
    /\ ~loading
    /\ booted
    /\ authLog = << <<"me", "-">> >>
    /\ resp = NoResp
    /\ net = NoCalls
    /\ ~RedirectPending

\* the last step handled a failed "update milestones"
MilestonesFailed == resp.op = "updateMilestones" /\ resp.status # 200

\* the "update milestones" calls in flight for report id with body ms
MilestoneCalls(n, id, ms) == Count(n, Req("updateMilestones", id, ms, TRUE))

EmptyTokenHash == << <<"session_id", "">> >>

\* C29: on a page load whose fragment is session_id= with an empty value the mount
\* effect issues the session resolution and nothing else, and for as long as that
\* fragment is in the URL no token exchange is called or pending.
C29_EmptyTokenIsAbsent ==
    /\ [](hash = EmptyTokenHash =>
            /\ ExchangeCalls(net) = 0
            /\ \A r \in DOMAIN net : r.op # "session"
            /\ booted => authLog = << <<"me", "-">> >>)
    /\ [][ hash = EmptyTokenHash /\ ~booted /\ booted' =>
             /\ net' = Issue(NoCalls, Req("me", "-", <<>>, TRUE))
             /\ authLog' = << <<"me", "-">> >>
             /\ hash' = hash ]_vars
    /\ [][ hash = EmptyTokenHash => resp'.op # "session" ]_vars

\* the dashboard route was loaded with the fragment session_id= and the session
\* resolution, the only call made, has answered with an identity
C29_Witness ==
    /\ hash = EmptyTokenHash
    /\ path = DashboardPath
    /\ booted
    /\ authLog = << <<"me", "-">> >>
    /\ resp = [op |-> "me", status |-> 200, data |-> <<"u1">>]
    /\ user = "u1"
    /\ ~loading

\* C30: the step index is always one of 0..5 and is 0 whenever no wizard is
\* mounted, so every wizard starts at 0; it goes up only by one, by a Next click
\* below step 5, and down only by one, by a Previous click above step 0, or to 0
\* when the wizard goes away; Next reacts only below step 5 and Previous exactly
\* above step 0; and the step that handles the answer to "save profile" or "run
\* analysis", success or failure, leaves the index of a wizard that stays mounted
\* as it is.
C30_StepIndexInRange ==
    /\ [](currentStep \in 0..(Len(STEPS) - 1))
    /\ [](mounted # OnboardingPath => currentStep = 0)
    /\ [](WizardForm =>
            /\ ENABLED Next_ => currentStep < 5
            /\ ENABLED Previous <=> currentStep > 0)
    /\ [][ currentStep' > currentStep =>
             /\ currentStep < 5
             /\ currentStep' = currentStep + 1
             /\ resp' = NoResp
             /\ WizardForm /\ WizardForm' ]_vars
    /\ [][ currentStep' < currentStep =>
             \/ /\ currentStep > 0
                /\ currentStep' = currentStep - 1
                /\ resp' = NoResp
                /\ WizardForm /\ WizardForm'
             \/ /\ mounted = OnboardingPath
                /\ mounted' # OnboardingPath
                /\ currentStep' = 0 ]_vars
    /\ [][ resp'.op \in {"save", "analyze"} /\ mounted' = OnboardingPath =>
             currentStep' = currentStep ]_vars

\* the user stepped back to Goals while "save profile" was pending and the save
\* failed: the index is still 4
C30_Witness ==
    /\ SaveFailed
    /\ WizardForm
    /\ currentStep = 4
    /\ ~isSubmitting
    /\ ENABLED Next_
    /\ ENABLED Previous

====
